---- MODULE Spec2Model ----
(***************************************************************************)
(* Model of pinamic-dns: one reconciliation pass of the DigitalOcean       *)
(* IPSetter (src/digitalocean.go) as driven by the CLI (src/cmd/main.go),  *)
(* and of the earlier cached-identifier prototype (src/unnamed/part_003,   *)
(* src/main.go).  The provider holds the DNS records of the one configured *)
(* domain; every provider call has a nondeterministic outcome.             *)
(***************************************************************************)
EXTENDS Integers, Sequences, FiniteSets, TLC

VARIABLES
    records,    \* provider: the domain's records, in listing order
    nextID,     \* provider: identifier given to the next created record
    config,     \* config.json: name, ttl and (prototype only) the cached id
    runs,       \* number of runs so far
    start,      \* provider records before the first run
    op,         \* which program ran last: "none", "main", "CreateOrUpdateRecord"
    args,       \* inputs of the last run: name, ip, ttl
    before,     \* provider records when the last run started
    discovery,  \* what getIP returned in the last run
    listed,     \* what the listing call of the last run returned
    decision,   \* what getUpdatableARecord returned in the last run
    fetched,    \* what the fetch by identifier returned in the last run
    calls,      \* provider calls issued by the last run, in order
    status,     \* DNSResult.StatusCode of the last run (prototype only)
    ret         \* how the last run ended

vars == <<records, nextID, config, runs, start, op, args, before, discovery, listed,
          decision, fetched, calls, status, ret>>

----------------------------------------------------------------------------
(* Bounds *)

MaxInitRecords == 3     \* longest record list the domain starts with
PageSize == 2           \* records per page of the listing endpoint (scaled)
MaxCachedRecords == 2   \* longest record list the prototype's domain starts with
MaxPassRecords == 2     \* longest record list a sequence of passes starts with
MaxPasses == 3          \* passes in a row

----------------------------------------------------------------------------
(* Value domains *)

ARecordType == "A"

Types == {"A", "MX"}
Names == {"home", "www"}
DNSData == {"1.1.1.1", "2.2.2.2"}
TTLs == {30, 60}        \* values of the configured ttl
InitTTLs == {60}        \* ttl of the records the domain starts with

Min(a, b) == IF a < b THEN a ELSE b

\* godo.DomainRecord{}: the zero value returned next to an error
ZeroRecord == [ID |-> 0, Type |-> "", Name |-> "", Data |-> "", TTL |-> 0]

NoRequest == [Type |-> "", Name |-> "", Data |-> "", TTL |-> 0]

----------------------------------------------------------------------------
(* net.IP: parsing and printing *)

NilIP == "nil"

\* net.ParseIP: nil for text that is not an address; the IPv4-mapped IPv6
\* form denotes the same address as the dotted form.
ParseIP(text) ==
    CASE text = "1.1.1.1" -> "1.1.1.1"
      [] text = "2.2.2.2" -> "2.2.2.2"
      [] text = "::ffff:1.1.1.1" -> "1.1.1.1"
      [] OTHER -> NilIP

\* net.IP.String: "<nil>" for a nil address, dotted form for an IPv4 one
IPString(ip) == IF ip = NilIP THEN "<nil>" ELSE ip

IsIPText(data) == data \in DNSData

----------------------------------------------------------------------------
(* Public-IP discovery *)

\* Response bodies of the discovery service, as token sequences
Bodies == { <<"1.1.1.1", "\n">>, <<"2.2.2.2">>, <<"::ffff:1.1.1.1", "\n">>,
            <<"junk", "\n">>, <<>> }

DiscoveryOutcomes == {"ok", "transport", "read"}

RECURSIVE TrimLeft(_)
TrimLeft(s) == IF s # <<>> /\ Head(s) = "\n" THEN TrimLeft(Tail(s)) ELSE s

RECURSIVE TrimRight(_)
TrimRight(s) ==
    IF s # <<>> /\ s[Len(s)] = "\n" THEN TrimRight(SubSeq(s, 1, Len(s) - 1)) ELSE s

\* strings.Trim(body, "\n"), then the text that remains
Trim(body) == TrimRight(TrimLeft(body))

BodyText(body) ==
    LET t == Trim(body)
    IN  IF t = <<>> THEN "" ELSE IF Len(t) = 1 THEN t[1] ELSE "multi"

\* cmd getIP: a transport or read failure is an error; anything else is
\* net.ParseIP of the trimmed body with a nil error.
getIP(outcome, body) ==
    IF outcome = "transport" THEN [ip |-> NilIP, err |-> "transport"]
    ELSE IF outcome = "read" THEN [ip |-> NilIP, err |-> "read"]
    ELSE [ip |-> ParseIP(BodyText(body)), err |-> "nil"]

----------------------------------------------------------------------------
(* Provider (godo.DomainsService) *)

ListOutcomes == {"ok", "transport", "status"}
WriteOutcomes == {"ok", "transport", "status"}

HasID(recs, id) == \E i \in 1..Len(recs) : recs[i].ID = id

\* Domains.Records(ctx, domain, nil): one page of the listing
Records(recs, outcome) ==
    IF outcome = "ok"
    THEN [records |-> SubSeq(recs, 1, Min(PageSize, Len(recs))), err |-> "nil"]
    ELSE [records |-> <<>>, err |-> outcome]

\* Domains.CreateRecord: on success the provider appends a record
CreateRecordAt(recs, id, req, outcome) ==
    IF outcome = "ok"
    THEN [records |-> Append(recs, [ID |-> id, Type |-> req.Type, Name |-> req.Name,
                                    Data |-> req.Data, TTL |-> req.TTL]),
          err |-> "nil"]
    ELSE [records |-> recs, err |-> outcome]

\* Domains.EditRecord: succeeds only on an identifier the provider holds
EditRecordAt(recs, id, req, outcome) ==
    IF outcome = "ok" /\ HasID(recs, id)
    THEN [records |-> [i \in 1..Len(recs) |->
                         IF recs[i].ID = id
                         THEN [ID |-> id, Type |-> req.Type, Name |-> req.Name,
                               Data |-> req.Data, TTL |-> req.TTL]
                         ELSE recs[i]],
          err |-> "nil"]
    ELSE [records |-> recs, err |-> IF outcome = "ok" THEN "status" ELSE outcome]

ListCall == [op |-> "list", id |-> 0, req |-> NoRequest]
CreateCall(req) == [op |-> "create", id |-> 0, req |-> req]
EditCall(id, req) == [op |-> "edit", id |-> id, req |-> req]
FetchCall(id) == [op |-> "fetch", id |-> id, req |-> NoRequest]

----------------------------------------------------------------------------
(* src/digitalocean.go *)

makeARecordEditRequest(name, ip, ttl) ==
    [Type |-> ARecordType, Name |-> name, Data |-> IPString(ip), TTL |-> ttl]

\* Variant: the scan matches on the name alone and takes records of any type
RECURSIVE scanRecords_AnyType(_, _, _, _, _)
scanRecords_AnyType(recs, i, name, proposedValue, haveName) ==
    IF i > Len(recs)
    THEN IF haveName
         THEN [record |-> ZeroRecord, err |-> "errNoUpdateNeeded"]
         ELSE [record |-> ZeroRecord, err |-> "errNoRecordsFound"]
    ELSE IF recs[i].Name # name
         THEN scanRecords_AnyType(recs, i + 1, name, proposedValue, haveName)
         ELSE IF recs[i].Data # proposedValue
              THEN [record |-> recs[i], err |-> "nil"]
              ELSE scanRecords_AnyType(recs, i + 1, name, proposedValue, TRUE)

\* Variant: the scan never notes that it has seen the name
RECURSIVE scanRecords_ForgetsName(_, _, _, _, _)
scanRecords_ForgetsName(recs, i, name, proposedValue, haveName) ==
    IF i > Len(recs)
    THEN IF haveName
         THEN [record |-> ZeroRecord, err |-> "errNoUpdateNeeded"]
         ELSE [record |-> ZeroRecord, err |-> "errNoRecordsFound"]
    ELSE IF recs[i].Type # ARecordType \/ recs[i].Name # name
         THEN scanRecords_ForgetsName(recs, i + 1, name, proposedValue, haveName)
         ELSE IF recs[i].Data # proposedValue
              THEN [record |-> recs[i], err |-> "nil"]
              ELSE scanRecords_ForgetsName(recs, i + 1, name, proposedValue, haveName)

\* Variant: the scan does not return at once and keeps the last divergent record
RECURSIVE scanRecords_LastDivergent(_, _, _, _, _)
scanRecords_LastDivergent(recs, i, name, proposedValue, haveName) ==
    IF i > Len(recs)
    THEN IF haveName
         THEN [record |-> ZeroRecord, err |-> "errNoUpdateNeeded"]
         ELSE [record |-> ZeroRecord, err |-> "errNoRecordsFound"]
    ELSE IF recs[i].Type # ARecordType \/ recs[i].Name # name
         THEN scanRecords_LastDivergent(recs, i + 1, name, proposedValue, haveName)
         ELSE IF recs[i].Data # proposedValue
              THEN LET rest == scanRecords_LastDivergent(recs, i + 1, name, proposedValue, TRUE)
                   IN  IF rest.err = "nil" THEN rest ELSE [record |-> recs[i], err |-> "nil"]
              ELSE scanRecords_LastDivergent(recs, i + 1, name, proposedValue, TRUE)

\* Variant: the scan stops at the first record that is not an A record named
\* name (break written for continue)
RECURSIVE scanRecords_StopsAtOther(_, _, _, _, _)
scanRecords_StopsAtOther(recs, i, name, proposedValue, haveName) ==
    IF i > Len(recs) \/ recs[i].Type # ARecordType \/ recs[i].Name # name
    THEN IF haveName
         THEN [record |-> ZeroRecord, err |-> "errNoUpdateNeeded"]
         ELSE [record |-> ZeroRecord, err |-> "errNoRecordsFound"]
    ELSE IF recs[i].Data # proposedValue
         THEN [record |-> recs[i], err |-> "nil"]
         ELSE scanRecords_StopsAtOther(recs, i + 1, name, proposedValue, TRUE)

\* The scan of getUpdatableARecord from index i on
RECURSIVE scanRecords(_, _, _, _, _)
scanRecords(recs, i, name, proposedValue, haveName) ==
    IF i > Len(recs)
    THEN IF haveName
         THEN [record |-> ZeroRecord, err |-> "errNoUpdateNeeded"]
         ELSE [record |-> ZeroRecord, err |-> "errNoRecordsFound"]
    ELSE IF recs[i].Type # ARecordType \/ recs[i].Name # name
         THEN scanRecords(recs, i + 1, name, proposedValue, haveName)
         ELSE IF recs[i].Data # proposedValue
              THEN [record |-> recs[i], err |-> "nil"]
              ELSE scanRecords(recs, i + 1, name, proposedValue, TRUE)

getUpdatableARecord(listing, name, proposedValue) ==
    IF listing.err # "nil"
    THEN [record |-> ZeroRecord, err |-> "listError"]
    ELSE scanRecords(listing.records, 1, name, proposedValue, FALSE)

\* Variant: an edit that failed is followed by a create
SetIP_RetriesAsCreate(recs, id, name, ip, recordTTL, listOutcome, writeOutcome) ==
    LET editRequest == makeARecordEditRequest(name, ip, recordTTL)
        listing == Records(recs, listOutcome)
        got == getUpdatableARecord(listing, name, IPString(ip))
        created == CreateRecordAt(recs, id, editRequest, "ok")
        edited == EditRecordAt(recs, got.record.ID, editRequest, writeOutcome)
    IN  IF got.err = "errNoUpdateNeeded"
        THEN [records |-> recs, nextID |-> id, listed |-> listing, decision |-> got,
              calls |-> <<ListCall>>, ret |-> "nil"]
        ELSE IF got.err = "errNoRecordsFound"
        THEN [records |-> created.records, nextID |-> id + 1,
              listed |-> listing, decision |-> got,
              calls |-> <<ListCall, CreateCall(editRequest)>>, ret |-> "nil"]
        ELSE IF edited.err = "nil"
        THEN [records |-> edited.records, nextID |-> id,
              listed |-> listing, decision |-> got,
              calls |-> <<ListCall, EditCall(got.record.ID, editRequest)>>, ret |-> "nil"]
        ELSE [records |-> created.records, nextID |-> id + 1,
              listed |-> listing, decision |-> got,
              calls |-> <<ListCall, EditCall(got.record.ID, editRequest),
                          CreateCall(editRequest)>>,
              ret |-> "nil"]

\* Variant: every divergent record of the listing is edited, not only the first
SetIP_EditsAllDivergent(recs, id, name, ip, recordTTL, listOutcome, writeOutcome) ==
    LET editRequest == makeARecordEditRequest(name, ip, recordTTL)
        listing == Records(recs, listOutcome)
        got == getUpdatableARecord(listing, name, IPString(ip))
        created == CreateRecordAt(recs, id, editRequest, writeOutcome)
        targets == SelectSeq(listing.records,
                             LAMBDA r : r.Type = ARecordType /\ r.Name = name
                                        /\ r.Data # IPString(ip))
        targetIDs == { targets[k].ID : k \in 1..Len(targets) }
        editedAll == [i \in 1..Len(recs) |->
                        IF recs[i].ID \in targetIDs
                        THEN [ID |-> recs[i].ID, Type |-> editRequest.Type,
                              Name |-> editRequest.Name, Data |-> editRequest.Data,
                              TTL |-> editRequest.TTL]
                        ELSE recs[i]]
    IN  IF got.err = "errNoUpdateNeeded"
        THEN [records |-> recs, nextID |-> id, listed |-> listing, decision |-> got,
              calls |-> <<ListCall>>, ret |-> "nil"]
        ELSE IF got.err = "errNoRecordsFound"
        THEN [records |-> created.records,
              nextID |-> IF created.err = "nil" THEN id + 1 ELSE id,
              listed |-> listing, decision |-> got,
              calls |-> <<ListCall, CreateCall(editRequest)>>,
              ret |-> IF created.err = "nil" THEN "nil" ELSE "createError"]
        ELSE IF got.err = "nil" /\ writeOutcome = "ok"
        THEN [records |-> editedAll, nextID |-> id, listed |-> listing, decision |-> got,
              calls |-> <<ListCall>> \o
                        [k \in 1..Len(targets) |-> EditCall(targets[k].ID, editRequest)],
              ret |-> "nil"]
        ELSE [records |-> recs, nextID |-> id, listed |-> listing, decision |-> got,
              calls |-> <<ListCall, EditCall(got.record.ID, editRequest)>>,
              ret |-> "updateError"]

\* Variant: a record that is current but carries another ttl than the
\* configured one is edited
SetIP_ComparesTTL(recs, id, name, ip, recordTTL, listOutcome, writeOutcome) ==
    LET editRequest == makeARecordEditRequest(name, ip, recordTTL)
        listing == Records(recs, listOutcome)
        got == getUpdatableARecord(listing, name, IPString(ip))
        created == CreateRecordAt(recs, id, editRequest, writeOutcome)
        stale == SelectSeq(listing.records,
                           LAMBDA r : r.Type = ARecordType /\ r.Name = name
                                      /\ r.TTL # recordTTL)
        target == IF got.err = "errNoUpdateNeeded" THEN stale[1] ELSE got.record
        edited == EditRecordAt(recs, target.ID, editRequest, writeOutcome)
    IN  IF got.err = "errNoUpdateNeeded" /\ stale = <<>>
        THEN [records |-> recs, nextID |-> id, listed |-> listing, decision |-> got,
              calls |-> <<ListCall>>, ret |-> "nil"]
        ELSE IF got.err = "errNoRecordsFound"
        THEN [records |-> created.records,
              nextID |-> IF created.err = "nil" THEN id + 1 ELSE id,
              listed |-> listing, decision |-> got,
              calls |-> <<ListCall, CreateCall(editRequest)>>,
              ret |-> IF created.err = "nil" THEN "nil" ELSE "createError"]
        ELSE [records |-> edited.records, nextID |-> id,
              listed |-> listing, decision |-> got,
              calls |-> <<ListCall, EditCall(target.ID, editRequest)>>,
              ret |-> IF edited.err = "nil" THEN "nil" ELSE "updateError"]

\* SetIP: the provider after the call, the calls issued and the error returned
SetIP(recs, id, name, ip, recordTTL, listOutcome, writeOutcome) ==
    LET editRequest == makeARecordEditRequest(name, ip, recordTTL)
        listing == Records(recs, listOutcome)
        got == getUpdatableARecord(listing, name, IPString(ip))
        created == CreateRecordAt(recs, id, editRequest, writeOutcome)
        edited == EditRecordAt(recs, got.record.ID, editRequest, writeOutcome)
    IN  IF got.err = "errNoUpdateNeeded"
        THEN [records |-> recs, nextID |-> id, listed |-> listing, decision |-> got,
              calls |-> <<ListCall>>, ret |-> "nil"]
        ELSE IF got.err = "errNoRecordsFound"
        THEN [records |-> created.records,
              nextID |-> IF created.err = "nil" THEN id + 1 ELSE id,
              listed |-> listing, decision |-> got,
              calls |-> <<ListCall, CreateCall(editRequest)>>,
              ret |-> IF created.err = "nil" THEN "nil" ELSE "createError"]
        ELSE [records |-> edited.records, nextID |-> id,
              listed |-> listing, decision |-> got,
              calls |-> <<ListCall, EditCall(got.record.ID, editRequest)>>,
              ret |-> IF edited.err = "nil" THEN "nil" ELSE "updateError"]

----------------------------------------------------------------------------
(* Initial states *)

RecordFields == [Type : Types, Name : Names, Data : DNSData, TTL : InitTTLs]

\* Record lists of length n; identifiers are distinct and run against the
\* listing order.
InitRecordLists(n) ==
    { [i \in 1..n |-> [ID |-> n + 1 - i, Type |-> f[i].Type, Name |-> f[i].Name,
                       Data |-> f[i].Data, TTL |-> f[i].TTL]] :
        f \in [1..n -> RecordFields] }

NoListing == [records |-> <<>>, err |-> "none"]
NoDecision == [record |-> ZeroRecord, err |-> "none"]
NoArgs == [name |-> "", ip |-> NilIP, ttl |-> 0]
NoDiscovery == [ip |-> NilIP, err |-> "none"]
NoFetch == [record |-> ZeroRecord, code |-> 0, err |-> "none"]

\* dns_config.id absent from config.json
NoID == -1

\* config.json as decoded: the four values the CLI needs
ValidConfigs ==
    [AccessToken : {"token"}, Domain : {"example.com"}, Name : Names, TTL : TTLs,
     ID : {NoID}, readable : {TRUE}]

\* config.json with any of the four values left out; a file that is missing
\* or is not JSON is not readable
AnyConfigs ==
    [AccessToken : {"", "token"}, Domain : {"", "example.com"}, Name : Names \cup {""},
     TTL : TTLs \cup {0}, ID : {NoID}, readable : BOOLEAN]

\* What every run starts from: nothing has run yet
Fresh ==
    /\ runs = 0
    /\ start = records
    /\ op = "none"
    /\ args = NoArgs
    /\ before = records
    /\ discovery = NoDiscovery
    /\ listed = NoListing
    /\ decision = NoDecision
    /\ fetched = NoFetch
    /\ calls = <<>>
    /\ status = 0
    /\ ret = "none"

Init ==
    /\ \E n \in 0..MaxInitRecords : records \in InitRecordLists(n)
    /\ nextID = Len(records) + 1
    /\ config \in ValidConfigs
    /\ Fresh

----------------------------------------------------------------------------
(* src/cmd/main.go: one run of the CLI *)

\* Variant: validate does not look at the ttl
validate_SkipsTTL(cfg) ==
    IF cfg.AccessToken = "" THEN "access token must be specified in config"
    ELSE IF cfg.Domain = "" THEN "domain must be specified in config"
    ELSE IF cfg.Name = "" THEN "name must be specified in config"
    ELSE "nil"

\* Config.validate (src/cmd/config.go)
validate(cfg) ==
    IF cfg.AccessToken = "" THEN "access token must be specified in config"
    ELSE IF cfg.Domain = "" THEN "domain must be specified in config"
    ELSE IF cfg.Name = "" THEN "name must be specified in config"
    ELSE IF cfg.TTL = 0 THEN "ttl must be specified in config"
    ELSE "nil"

\* NewConfig: the error of opening or decoding the file, else of validate
NewConfig(cfg) ==
    IF ~cfg.readable THEN "decodeError" ELSE validate(cfg)

Main(ipOutcome, body, listOutcome, writeOutcome) ==
    LET configErr == NewConfig(config)
        found == getIP(ipOutcome, body)
        r == SetIP(records, nextID, config.Name, found.ip, config.TTL,
                   listOutcome, writeOutcome)
    IN  /\ op' = "main"
        /\ runs' = runs + 1
        /\ before' = records
        /\ status' = 0
        /\ fetched' = NoFetch
        /\ UNCHANGED <<config, start>>
        /\ IF configErr # "nil"
           \* logger.Fatal(err) before getIP
           THEN /\ ret' = "configError"
                /\ discovery' = NoDiscovery
                /\ args' = NoArgs
                /\ calls' = <<>>
                /\ listed' = NoListing
                /\ decision' = NoDecision
                /\ UNCHANGED <<records, nextID>>
           ELSE IF found.err # "nil"
           THEN /\ ret' = "discoveryError"
                /\ discovery' = found
                /\ args' = [name |-> config.Name, ip |-> found.ip, ttl |-> config.TTL]
                /\ calls' = <<>>
                /\ listed' = NoListing
                /\ decision' = NoDecision
                /\ UNCHANGED <<records, nextID>>
           ELSE /\ discovery' = found
                /\ args' = [name |-> config.Name, ip |-> found.ip, ttl |-> config.TTL]
                /\ records' = r.records
                /\ nextID' = r.nextID
                /\ listed' = r.listed
                /\ decision' = r.decision
                /\ calls' = r.calls
                /\ ret' = r.ret

\* One run of the CLI from any state of the domain.  A run whose discovery
\* fails never looks at the provider; the outcomes of calls that are not
\* reached are not enumerated.
Next ==
    /\ runs = 0
    /\ \/ \E ipOutcome \in DiscoveryOutcomes \ {"ok"} : Main(ipOutcome, <<>>, "ok", "ok")
       \/ \E body \in Bodies, listOutcome \in ListOutcomes, writeOutcome \in WriteOutcomes :
             Main("ok", body, listOutcome, writeOutcome)

Spec == Init /\ [][Next]_vars

\* One run of the CLI on any config.json
InitConfig ==
    /\ \E n \in 0..MaxCachedRecords : records \in InitRecordLists(n)
    /\ nextID = Len(records) + 1
    /\ config \in AnyConfigs
    /\ Fresh

SpecConfig == InitConfig /\ [][Next]_vars

\* Runs of the CLI one after the other, each finding its IP, with every
\* provider call answered and nothing else changing the domain
NextPasses ==
    /\ runs < MaxPasses
    /\ \E body \in Bodies : Main("ok", body, "ok", "ok")

InitPasses ==
    /\ \E n \in 0..MaxPassRecords : records \in InitRecordLists(n)
    /\ nextID = Len(records) + 1
    /\ config \in ValidConfigs
    /\ Fresh

SpecPasses == InitPasses /\ [][NextPasses]_vars

\* The same, with the discovered IP the same in every run
NextSameIP ==
    /\ runs < MaxPasses
    /\ \E body \in Bodies :
          /\ runs = 0 \/ getIP("ok", body).ip = args.ip
          /\ Main("ok", body, "ok", "ok")

SpecSameIP == Init /\ [][NextSameIP]_vars

----------------------------------------------------------------------------
(* src/unnamed/part_003 (and its earlier revision src/main.go): the         *)
(* prototype that remembers the record's identifier in config.json          *)

StatusIPSet == 0
StatusIPUpdated == 1
StatusIPAlreadySet == 2

FetchOutcomes == {"ok", "transport", "status"}
FileOutcomes == {"ok", "open", "encode"}

\* getIP of the prototype: the trimmed body as a string, not parsed
getIPRaw(outcome, body) ==
    IF outcome = "transport" THEN [ip |-> "", err |-> "transport"]
    ELSE IF outcome = "read" THEN [ip |-> "", err |-> "read"]
    ELSE [ip |-> BodyText(body), err |-> "nil"]

makeEditRequest(cfg, ip) ==
    [Type |-> "A", Name |-> cfg.Name, Data |-> ip, TTL |-> cfg.TTL]

\* Domains.Record: the record and a 200, a 404 when the provider does not
\* hold the identifier, another error status, or no response at all
Record(recs, id, outcome) ==
    IF outcome = "transport" THEN [record |-> ZeroRecord, code |-> 0, err |-> "transport"]
    ELSE IF outcome = "status" THEN [record |-> ZeroRecord, code |-> 500, err |-> "status"]
    ELSE IF HasID(recs, id)
         THEN [record |-> recs[CHOOSE i \in 1..Len(recs) : recs[i].ID = id],
               code |-> 200, err |-> "nil"]
         ELSE [record |-> ZeroRecord, code |-> 404, err |-> "status"]

\* Config.Write: the file keeps what it had when it cannot be opened and is
\* left truncated when encoding fails
Write(cfg, onDisk, outcome) ==
    IF outcome = "ok" THEN [file |-> cfg, err |-> "nil"]
    ELSE IF outcome = "open" THEN [file |-> onDisk, err |-> "open"]
    ELSE [file |-> [onDisk EXCEPT !.readable = FALSE], err |-> "encode"]

\* CreateRecord: create at the provider, then remember the identifier
CreateRecord(recs, id, cfg, editRequest, writeOutcome, fileOutcome) ==
    LET created == CreateRecordAt(recs, id, editRequest, writeOutcome)
        written == Write([cfg EXCEPT !.ID = id], cfg, fileOutcome)
    IN  IF created.err # "nil"
        THEN [records |-> recs, nextID |-> id, config |-> cfg,
              calls |-> <<CreateCall(editRequest)>>, err |-> "createError"]
        ELSE [records |-> created.records, nextID |-> id + 1, config |-> written.file,
              calls |-> <<CreateCall(editRequest)>>,
              err |-> IF written.err = "nil" THEN "nil" ELSE "writeConfigError"]

\* UpdateRecord: edit the record the remembered identifier names
UpdateRecord(recs, cfg, editRequest, writeOutcome) ==
    IF cfg.ID = NoID
    THEN [records |-> recs, calls |-> <<>>, err |-> "nilIDError"]
    ELSE LET edited == EditRecordAt(recs, cfg.ID, editRequest, writeOutcome)
         IN  [records |-> edited.records, calls |-> <<EditCall(cfg.ID, editRequest)>>,
              err |-> IF edited.err = "nil" THEN "nil" ELSE "updateError"]

\* Variant: the update branch leaves StatusCode at its zero value
CreateOrUpdateRecord_ZeroStatusOnUpdate(recs, id, cfg, ip, fetchOutcome, writeOutcome, fileOutcome) ==
    LET editRequest == makeEditRequest(cfg, ip)
        created == CreateRecord(recs, id, cfg, editRequest, writeOutcome, fileOutcome)
        got == Record(recs, cfg.ID, fetchOutcome)
        updated == UpdateRecord(recs, cfg, editRequest, writeOutcome)
        unchanged == [records |-> recs, nextID |-> id, config |-> cfg, fetched |-> got]
    IN  IF cfg.ID = NoID
        THEN [records |-> created.records, nextID |-> created.nextID,
              config |-> created.config, fetched |-> NoFetch, calls |-> created.calls,
              status |-> StatusIPSet, ret |-> created.err]
        ELSE IF got.err # "nil"
        THEN IF got.code = 0
             \* res is nil: reading res.StatusCode panics
             THEN unchanged @@ [calls |-> <<FetchCall(cfg.ID)>>, status |-> 0, ret |-> "panic"]
             ELSE IF got.code = 404
             THEN [records |-> created.records, nextID |-> created.nextID,
                   config |-> created.config, fetched |-> got,
                   calls |-> <<FetchCall(cfg.ID)>> \o created.calls,
                   status |-> StatusIPSet, ret |-> created.err]
             ELSE unchanged @@ [calls |-> <<FetchCall(cfg.ID)>>, status |-> 0,
                                ret |-> "fetchError"]
        ELSE IF got.record.Data # ip
        THEN [records |-> updated.records, nextID |-> id, config |-> cfg,
              fetched |-> got,
              calls |-> <<FetchCall(cfg.ID)>> \o updated.calls,
              status |-> 0,
              ret |-> updated.err]
        ELSE IF got.code = 200
        THEN unchanged @@ [calls |-> <<FetchCall(cfg.ID)>>, status |-> StatusIPAlreadySet,
                           ret |-> "nil"]
        ELSE unchanged @@ [calls |-> <<FetchCall(cfg.ID)>>, status |-> 0,
                           ret |-> "unknownStatusError"]

\* CreateOrUpdateRecord, after getIP succeeded with ip
CreateOrUpdateRecord(recs, id, cfg, ip, fetchOutcome, writeOutcome, fileOutcome) ==
    LET editRequest == makeEditRequest(cfg, ip)
        created == CreateRecord(recs, id, cfg, editRequest, writeOutcome, fileOutcome)
        got == Record(recs, cfg.ID, fetchOutcome)
        updated == UpdateRecord(recs, cfg, editRequest, writeOutcome)
        unchanged == [records |-> recs, nextID |-> id, config |-> cfg, fetched |-> got]
    IN  IF cfg.ID = NoID
        THEN [records |-> created.records, nextID |-> created.nextID,
              config |-> created.config, fetched |-> NoFetch, calls |-> created.calls,
              status |-> StatusIPSet, ret |-> created.err]
        ELSE IF got.err # "nil"
        THEN IF got.code = 0
             \* res is nil: reading res.StatusCode panics
             THEN unchanged @@ [calls |-> <<FetchCall(cfg.ID)>>, status |-> 0, ret |-> "panic"]
             ELSE IF got.code = 404
             THEN [records |-> created.records, nextID |-> created.nextID,
                   config |-> created.config, fetched |-> got,
                   calls |-> <<FetchCall(cfg.ID)>> \o created.calls,
                   status |-> StatusIPSet, ret |-> created.err]
             ELSE unchanged @@ [calls |-> <<FetchCall(cfg.ID)>>, status |-> 0,
                                ret |-> "fetchError"]
        ELSE IF got.record.Data # ip
        THEN [records |-> updated.records, nextID |-> id, config |-> cfg,
              fetched |-> got,
              calls |-> <<FetchCall(cfg.ID)>> \o updated.calls,
              status |-> IF updated.err = "nil" THEN StatusIPUpdated ELSE 0,
              ret |-> updated.err]
        ELSE IF got.code = 200
        THEN unchanged @@ [calls |-> <<FetchCall(cfg.ID)>>, status |-> StatusIPAlreadySet,
                           ret |-> "nil"]
        ELSE unchanged @@ [calls |-> <<FetchCall(cfg.ID)>>, status |-> 0,
                           ret |-> "unknownStatusError"]

\* One run of the prototype's main
MainCached(ipOutcome, body, fetchOutcome, writeOutcome, fileOutcome) ==
    LET found == getIPRaw(ipOutcome, body)
        r == CreateOrUpdateRecord(records, nextID, config, found.ip,
                                  fetchOutcome, writeOutcome, fileOutcome)
    IN  /\ op' = "CreateOrUpdateRecord"
        /\ runs' = runs + 1
        /\ UNCHANGED start
        /\ before' = records
        /\ discovery' = found
        /\ args' = [name |-> config.Name, ip |-> found.ip, ttl |-> config.TTL]
        /\ listed' = NoListing
        /\ decision' = NoDecision
        /\ IF ~config.readable
           \* NewConfig cannot decode the file
           THEN /\ ret' = "configError"
                /\ calls' = <<>>
                /\ status' = 0
                /\ fetched' = NoFetch
                /\ UNCHANGED <<records, nextID, config>>
           ELSE IF found.err # "nil"
           THEN /\ ret' = "discoveryError"
                /\ calls' = <<>>
                /\ status' = 0
                /\ fetched' = NoFetch
                /\ UNCHANGED <<records, nextID, config>>
           ELSE /\ records' = r.records
                /\ nextID' = r.nextID
                /\ config' = r.config
                /\ fetched' = r.fetched
                /\ calls' = r.calls
                /\ status' = IF r.ret = "nil" THEN r.status ELSE 0
                /\ ret' = r.ret

\* The prototype's domain holds A records; the remembered identifier is
\* absent, names one of them, or names a record that is gone (the provider
\* gives that identifier to no later record).
CachedRecordFields == [Type : {"A"}, Name : Names, Data : DNSData, TTL : InitTTLs]

CachedRecordLists(n) ==
    { [i \in 1..n |-> [ID |-> n + 1 - i, Type |-> f[i].Type, Name |-> f[i].Name,
                       Data |-> f[i].Data, TTL |-> f[i].TTL]] :
        f \in [1..n -> CachedRecordFields] }

InitCached ==
    /\ \E n \in 0..MaxCachedRecords : records \in CachedRecordLists(n)
    /\ nextID = Len(records) + 2
    /\ \E id \in {NoID} \cup (1..(Len(records) + 1)) :
          config \in [AccessToken : {"token"}, Domain : {"example.com"}, Name : Names,
                      TTL : TTLs, ID : {id}, readable : {TRUE}]
    /\ Fresh

\* One run of the prototype from any state of the domain and of config.json
NextCached ==
    /\ runs = 0
    /\ \/ \E ipOutcome \in DiscoveryOutcomes \ {"ok"} :
             MainCached(ipOutcome, <<>>, "ok", "ok", "ok")
       \/ \E body \in Bodies, fetchOutcome \in FetchOutcomes,
             writeOutcome \in WriteOutcomes, fileOutcome \in FileOutcomes :
             MainCached("ok", body, fetchOutcome, writeOutcome, fileOutcome)

SpecCached == InitCached /\ [][NextCached]_vars

----------------------------------------------------------------------------
(* Vocabulary of the properties *)

\* The last run reached SetIP
SetIPCalled == op = "main" /\ discovery.err = "nil"

ListOK == listed.err = "nil"
ListFailed == listed.err \in {"transport", "status"}

\* The value SetIP compares record data against
Proposed == IPString(args.ip)

\* The records the decision is about
IsNamedA(r, name) == r.Type = ARecordType /\ r.Name = name

Indices(recs, name) == { i \in 1..Len(recs) : IsNamedA(recs[i], name) }
Divergent(recs, name, value) == { i \in Indices(recs, name) : recs[i].Data # value }
Matching(recs, name, value) == { i \in Indices(recs, name) : recs[i].Data = value }

MinOf(S) == CHOOSE m \in S : \A k \in S : m <= k

CallsOf(kind) == { i \in 1..Len(calls) : calls[i].op = kind }
NumCalls(kind) == Cardinality(CallsOf(kind))
NumWrites == NumCalls("create") + NumCalls("edit")

\* The decision of getUpdatableARecord on a listing that succeeded
Decide(recs) == scanRecords(recs, 1, args.name, Proposed, FALSE)

RemoveAt(recs, i) == SubSeq(recs, 1, i - 1) \o SubSeq(recs, i + 1, Len(recs))
InsertAt(recs, p, r) == SubSeq(recs, 1, p) \o <<r>> \o SubSeq(recs, p + 1, Len(recs))
SwapAt(recs, i) ==
    [k \in 1..Len(recs) |-> IF k = i THEN recs[i + 1] ELSE IF k = i + 1 THEN recs[i] ELSE recs[k]]

\* Records that are not A records named name, with identifiers of their own
OtherRecords(name) ==
    { [ID |-> 9, Type |-> t, Name |-> n, Data |-> d, TTL |-> 60] :
        t \in Types, n \in Names, d \in DNSData } \ 
    { r \in [ID : {9}, Type : Types, Name : Names, Data : DNSData, TTL : {60}] :
        IsNamedA(r, name) }

----------------------------------------------------------------------------
(* Properties of getUpdatableARecord and SetIP *)

\* C1: when the listing succeeds and returns no A record named name,
\* getUpdatableARecord reports errNoRecordsFound and SetIP issues one create
\* call and no edit call.
C1_NoRecordMeansCreate ==
    (SetIPCalled /\ ListOK /\ Indices(listed.records, args.name) = {})
        => /\ decision.err = "errNoRecordsFound"
           /\ NumCalls("create") = 1
           /\ NumCalls("edit") = 0

\* C1 witness: a listing of other records only, answered by a create
C1_Witness ==
    /\ SetIPCalled /\ ListOK
    /\ Len(listed.records) >= 2
    /\ Indices(listed.records, args.name) = {}
    /\ \E i \in 1..Len(listed.records) : listed.records[i].Data # Proposed
    /\ NumCalls("create") = 1

\* C2: when the listing succeeds and every A record named name in it (at
\* least one) carries ip.String(), SetIP returns nil and issues neither a
\* create nor an edit call.
C2_AllCurrentMeansNoWrite ==
    (/\ SetIPCalled /\ ListOK
     /\ Indices(listed.records, args.name) # {}
     /\ Divergent(listed.records, args.name, Proposed) = {})
        => /\ ret = "nil"
           /\ NumCalls("create") = 0
           /\ NumCalls("edit") = 0

\* C2 witness: two current A records named name, and nothing written
C2_Witness ==
    /\ SetIPCalled /\ ListOK
    /\ Cardinality(Matching(listed.records, args.name, Proposed)) >= 2
    /\ Divergent(listed.records, args.name, Proposed) = {}
    /\ ret = "nil" /\ NumWrites = 0
    /\ records = before

\* C3: when the listing succeeds and holds an A record named name whose data
\* differs from the proposed value, getUpdatableARecord returns the one with
\* the smallest index, and SetIP edits the record with that identifier.
C3_FirstDivergentIsEdited ==
    (SetIPCalled /\ ListOK /\ Divergent(listed.records, args.name, Proposed) # {})
        => LET k == MinOf(Divergent(listed.records, args.name, Proposed))
           IN  /\ decision.err = "nil"
               /\ decision.record = listed.records[k]
               /\ NumCalls("create") = 0
               /\ NumCalls("edit") = 1
               /\ \A c \in CallsOf("edit") : calls[c].id = listed.records[k].ID

\* C3 witness: two divergent A records named name, the first one edited
C3_Witness ==
    /\ SetIPCalled /\ ListOK
    /\ Cardinality(Divergent(listed.records, args.name, Proposed)) >= 2
    /\ NumCalls("edit") = 1
    /\ ret = "nil"
    /\ records # before

\* C4: the decision is the same on the listing with any record that is not an
\* A record named name removed, with any such record inserted anywhere, and
\* with any such record exchanged with its neighbour; hence on every listing
\* with the same A records named name in the same order.
C4_OtherRecordsDoNotMatter ==
    (SetIPCalled /\ ListOK)
        => LET recs == listed.records
               others == (1..Len(recs)) \ Indices(recs, args.name)
           IN  /\ Decide(recs) = decision
               /\ \A i \in others : Decide(RemoveAt(recs, i)) = decision
               /\ \A p \in 0..Len(recs) : \A r \in OtherRecords(args.name) :
                      Decide(InsertAt(recs, p, r)) = decision
               /\ \A i \in 1..(Len(recs) - 1) :
                      (i \in others \/ i + 1 \in others)
                          => Decide(SwapAt(recs, i)) = decision
               /\ Decide(SelectSeq(recs, LAMBDA r : IsNamedA(r, args.name))) = decision

\* C4 witness: an update decided on a listing that starts with another record
C4_Witness ==
    /\ SetIPCalled /\ ListOK
    /\ Len(listed.records) >= 2
    /\ ~IsNamedA(listed.records[1], args.name)
    /\ listed.records[1].Data # Proposed
    /\ decision.err = "nil"
    /\ decision.record = listed.records[2]

\* C5: a run of SetIP issues at most one write call, a create or an edit and
\* never both, whatever the calls answer, and none when no update is needed.
C5_AtMostOneWrite ==
    SetIPCalled
        => /\ NumWrites <= 1
           /\ Len(calls) <= 2
           /\ (decision.err = "errNoUpdateNeeded" => NumWrites = 0)

\* C5 witness: a write that failed and was not followed by another call
C5_Witness ==
    /\ SetIPCalled /\ ListOK
    /\ ret \in {"createError", "updateError"}
    /\ NumWrites = 1
    /\ records = before

\* C6: SetIP issues no create call while the provider holds an A record named
\* name, also when the domain's records span more than one page.
C6_NoCreateWhileRecordExists ==
    SetIPCalled => ~(NumCalls("create") > 0 /\ Indices(before, args.name) # {})

\* C7 as stated: after a run in which SetIP returns no error the provider
\* holds at most one A record named name whose data is ip.String().
C7_AtMostOneCurrentRecord ==
    (SetIPCalled /\ ret = "nil")
        => Cardinality(Matching(records, args.name, Proposed)) <= 1

\* C7 amended: after a run in which SetIP returns no error the provider holds
\* at most one more A record named name with data ip.String() than before.
C7_AtMostOneMoreCurrentRecord ==
    (SetIPCalled /\ ret = "nil")
        => Cardinality(Matching(records, args.name, Proposed))
             <= Cardinality(Matching(before, args.name, Proposed)) + 1

\* C7 witness: a successful run that added a current record
C7_Witness ==
    /\ SetIPCalled /\ ret = "nil"
    /\ Cardinality(Matching(before, args.name, Proposed)) = 1
    /\ Cardinality(Matching(records, args.name, Proposed)) = 2

\* C8: when the listing call fails, SetIP returns the listing failure and
\* issues no create call and no edit call.
C8_ListFailureAborts ==
    (SetIPCalled /\ ListFailed)
        => /\ ret = "listError"
           /\ NumCalls("create") = 0
           /\ NumCalls("edit") = 0

\* C9: in the prototype, when the fetch of the remembered identifier answers
\* 404, the run issues exactly one create call and no edit call, and when the
\* create call succeeds it reports StatusIPSet with no error.
C9_NotFoundMeansCreate ==
    (op = "CreateOrUpdateRecord" /\ fetched.code = 404)
        => /\ NumCalls("create") = 1
           /\ NumCalls("edit") = 0
           /\ (Len(records) = Len(before) + 1 => (ret = "nil" /\ status = StatusIPSet))

\* C10: when the discovery response cannot be obtained or parsed, the run
\* ends with an error before SetIP: no provider call is issued and no request
\* whose data is not an IP address is submitted.
C10_NoIPMeansNoProviderCall ==
    /\ (op = "main" /\ (discovery.err # "nil" \/ discovery.ip = NilIP))
          => (ret = "discoveryError" /\ calls = <<>>)
    /\ \A i \in 1..Len(calls) :
          calls[i].op \in {"create", "edit"} => IsIPText(calls[i].req.Data)

----------------------------------------------------------------------------
(* Later properties *)

\* C11: NewConfig returns an error whenever the decoded access token, domain
\* or name is empty or the ttl is zero, and none when all four are set; when
\* it returns an error the run ends before discovery and before any provider
\* call.
C11_InvalidConfigStopsRun ==
    op = "main"
        => /\ config.readable
                => ((ret = "configError")
                      <=> (\/ config.AccessToken = "" \/ config.Domain = ""
                           \/ config.Name = "" \/ config.TTL = 0))
           /\ ret = "configError"
                => (discovery = NoDiscovery /\ calls = <<>> /\ records = before)

\* C11 witness: a run stopped for the ttl alone, and (elsewhere) a run that
\* went on because all four values are set
C11_Witness ==
    /\ op = "main"
    /\ config.readable
    /\ config.AccessToken # "" /\ config.Domain # "" /\ config.Name # ""
    /\ config.TTL = 0
    /\ ret = "configError"
    /\ records # <<>>

\* C12: in the prototype a result returned with a nil error carries
\* StatusIPSet exactly when one create call and no edit call was issued,
\* StatusIPUpdated exactly when one edit call and no create call was issued,
\* and StatusIPAlreadySet exactly when no write call was issued.
C12_StatusTellsTheWrite ==
    (op = "CreateOrUpdateRecord" /\ ret = "nil")
        => /\ status = StatusIPSet <=> (NumCalls("create") = 1 /\ NumCalls("edit") = 0)
           /\ status = StatusIPUpdated <=> (NumCalls("edit") = 1 /\ NumCalls("create") = 0)
           /\ status = StatusIPAlreadySet <=> NumWrites = 0

\* C12 witness: a run that edited the remembered record and says so
C12_Witness ==
    /\ op = "CreateOrUpdateRecord" /\ ret = "nil"
    /\ status = StatusIPUpdated
    /\ NumCalls("edit") = 1
    /\ records # before

\* C13: every edit call of SetIP carries the identifier of a record that the
\* listing call of the same run returned, and that record is an A record
\* named name whose data differs from ip.String().
C13_EditTargetsListedRecord ==
    SetIPCalled
        => \A c \in CallsOf("edit") :
              \E i \in Divergent(listed.records, args.name, Proposed) :
                  listed.records[i].ID = calls[c].id

\* C14: a run of SetIP leaves every provider record that is not an A record
\* named name as it was: it is not the target of an edit call and its type,
\* name, data and ttl are unchanged.
C14_OtherRecordsUntouched ==
    SetIPCalled
        => /\ Len(records) >= Len(before)
           /\ \A i \in 1..Len(before) :
                 ~IsNamedA(before[i], args.name)
                     => /\ records[i] = before[i]
                        /\ \A c \in CallsOf("edit") : calls[c].id # before[i].ID

\* C14 witness: an edit went through next to a record of the same name and
\* another type whose data differs too
C14_Witness ==
    /\ SetIPCalled /\ ret = "nil"
    /\ NumCalls("edit") = 1
    /\ records # before
    /\ \E i \in 1..Len(before) :
          /\ before[i].Type # ARecordType
          /\ before[i].Name = args.name
          /\ before[i].Data # Proposed
          /\ i < MinOf(Divergent(before, args.name, Proposed))

\* The errors CreateOrUpdateRecord returns to its caller
ReturnedErrors ==
    {"discoveryError", "createError", "writeConfigError", "fetchError", "updateError",
     "nilIDError", "unknownStatusError"}

\* C15: in the prototype, when the fetch of the remembered identifier fails
\* with anything but not-found, a transport failure without a response
\* included, CreateOrUpdateRecord returns that error and issues no create and
\* no edit call.
C15_FetchErrorIsReturned ==
    (/\ op = "CreateOrUpdateRecord"
     /\ fetched.err \in {"transport", "status"}
     /\ fetched.code # 404)
        => (ret = "fetchError" /\ NumWrites = 0)

\* C16: in the prototype, whenever CreateOrUpdateRecord returns an error, no
\* record was created or modified at the provider during that run.
C16_ErrorMeansNothingChanged ==
    (op = "CreateOrUpdateRecord" /\ ret \in ReturnedErrors) => records = before

\* C17: when the domain starts with k >= 1 A records named name whose data
\* differs from the desired IP, then in repeated runs with that IP, with no
\* provider failure and no other change, each of the first k runs edits
\* exactly one divergent record, after k runs every A record named name
\* carries the IP, and every later run issues no write.
C17_ConvergesInKPasses ==
    LET k == Cardinality(Divergent(start, args.name, Proposed))
    IN  (SetIPCalled /\ k >= 1)
            => /\ runs <= k
                    => /\ NumCalls("edit") = 1
                       /\ NumCalls("create") = 0
                       /\ Cardinality(Divergent(records, args.name, Proposed)) = k - runs
               /\ runs >= k => Divergent(records, args.name, Proposed) = {}
               /\ runs > k => NumWrites = 0

\* C18: starting without an A record named name, after any number of runs of
\* SetIP with whatever IPs, every provider call succeeding, the listing
\* fitting one page and nothing else changing the domain, the provider holds
\* exactly one A record named name, and its data is the IP of the last run.
C18_OneRecordWithLastIP ==
    (/\ SetIPCalled
     /\ Indices(start, args.name) = {}
     /\ Len(start) < PageSize)
        => /\ Cardinality(Indices(records, args.name)) = 1
           /\ \A i \in Indices(records, args.name) : records[i].Data = Proposed
           /\ Len(records) = Len(start) + 1

\* C18 witness: the third run, after a create and an edit, next to another
\* record the domain started with
C18_Witness ==
    /\ SetIPCalled
    /\ runs = 3
    /\ Indices(start, args.name) = {}
    /\ start # <<>> /\ Len(start) < PageSize
    /\ NumCalls("edit") = 1
    /\ \E i \in Indices(before, args.name) : before[i].Data # Proposed
    /\ \E i \in Indices(records, args.name) : records[i].Data = Proposed

\* The listing with the ttl of every record set to t
WithTTL(recs, t) == [i \in 1..Len(recs) |-> [recs[i] EXCEPT !.TTL = t]]

\* C19: the decision looks at type, name and data only: it is the same
\* whatever ttl the listed records carry, and when every listed A record named
\* name has the desired data SetIP writes nothing, also when a record's ttl
\* differs from the configured recordTTL.
C19_TTLAloneNeverEdits ==
    (SetIPCalled /\ ListOK)
        => /\ \A t \in TTLs \cup InitTTLs \cup {0} :
                 /\ Decide(WithTTL(listed.records, t)).err = decision.err
                 /\ Decide(WithTTL(listed.records, t)).record.ID = decision.record.ID
           /\ (/\ Indices(listed.records, args.name) # {}
               /\ Divergent(listed.records, args.name, Proposed) = {}
               /\ \E i \in Indices(listed.records, args.name) :
                     listed.records[i].TTL # args.ttl)
                 => (NumWrites = 0 /\ ret = "nil" /\ records = before)

\* C19 witness: a current record with another ttl than the configured one,
\* left as it is
C19_Witness ==
    /\ SetIPCalled /\ ListOK
    /\ Indices(listed.records, args.name) # {}
    /\ Divergent(listed.records, args.name, Proposed) = {}
    /\ \A i \in Indices(listed.records, args.name) : listed.records[i].TTL # args.ttl
    /\ NumWrites = 0
    /\ records = before

====
